---- MODULE Spec2Model ----
(***************************************************************************)
(* HMM-EM ON/OFF detection engine (on_off_detection/methods/hmmem.py):     *)
(* the EM driver of _run_hmmem (scaled forward-backward E-step, M-step,    *)
(* Newton-Raphson parameter update, emission table) and the log-domain     *)
(* Viterbi decoder.                                                        *)
(*                                                                         *)
(* Numbers.  A float64 is modelled as a binary float <<c, m, e>>: class c  *)
(* (0 finite, 1 +Inf, -1 -Inf, 2 NaN) and, when finite, the value m * 2^e  *)
(* with m odd (or 0) and |m| < 2^MantissaBits.  Every operation rounds to  *)
(* MantissaBits bits, overflows to Inf above 2^MaxExponent and underflows  *)
(* to 0 below 2^-MinExponent; x/0, 0 * Inf, Inf - Inf and comparisons with *)
(* NaN follow IEEE-754 as numpy does (a warning, no exception).  np.exp    *)
(* and np.log are modelled in base 2, exact at the powers of two and       *)
(* linear between them, so that each is monotone and the inverse of the    *)
(* other.                                                                  *)
(***************************************************************************)
EXTENDS Integers, Sequences, FiniteSets, TLC

(***************************************************************************)
(* Bounds of the model.                                                    *)
(***************************************************************************)
MaxBins == 2
MaxIterEM == 5
MantissaBits == 10

(***************************************************************************)
(* Floating-point arithmetic.                                              *)
(***************************************************************************)
\* float64: the largest finite value is below 2^(MaxExponent + 1) ...
MaxExponent == 1023
\* ... and the smallest positive one is 2^-MinExponent.
MinExponent == 1074

NaN == <<2, 0, 0>>
PosInf == <<1, 0, 0>>
NegInf == <<-1, 0, 0>>
Zero == <<0, 0, 0>>
One == <<0, 1, 0>>

IsNaN(x) == x[1] = 2
IsInf(x) == x[1] = 1 \/ x[1] = -1
IsFinite(x) == x[1] = 0

AbsInt(a) == IF a < 0 THEN -a ELSE a
SignInt(a) == IF a < 0 THEN -1 ELSE IF a > 0 THEN 1 ELSE 0

RECURSIVE Pow2(_)
Pow2(e) == IF e = 0 THEN 1 ELSE 2 * Pow2(e - 1)

\* Number of binary digits of n >= 0.
RECURSIVE Bits(_)
Bits(n) == IF n = 0 THEN 0 ELSE 1 + Bits(n \div 2)

RECURSIVE TrailingZeros(_)
TrailingZeros(n) == IF n % 2 = 1 THEN 0 ELSE 1 + TrailingZeros(n \div 2)

\* The float nearest to M * 2^E: M rounded to MantissaBits bits, Inf on
\* overflow, 0 on underflow.
Fl(M, E) ==
    IF M = 0 THEN Zero
    ELSE LET b == Bits(AbsInt(M))
             s == IF b > MantissaBits THEN b - MantissaBits ELSE 0
             q == IF s = 0 THEN AbsInt(M)
                  ELSE (AbsInt(M) + Pow2(s - 1)) \div Pow2(s)
             z == TrailingZeros(q)
             m == q \div Pow2(z)
             e == E + s + z
             top == e + Bits(m) - 1
         IN  IF top > MaxExponent THEN <<SignInt(M), 0, 0>>
             ELSE IF top < -MinExponent THEN Zero
             ELSE <<0, SignInt(M) * m, e>>

Int2Float(i) == Fl(i, 0)
Sign(x) == IF IsFinite(x) THEN SignInt(x[2]) ELSE IF IsNaN(x) THEN 0 ELSE x[1]
Neg(x) == IF IsNaN(x) THEN NaN ELSE <<-x[1], -x[2], x[3]>>

Add(x, y) ==
    IF IsNaN(x) \/ IsNaN(y) THEN NaN
    ELSE IF IsInf(x) /\ IsInf(y) THEN (IF x = y THEN x ELSE NaN)
    ELSE IF IsInf(x) THEN x
    ELSE IF IsInf(y) THEN y
    ELSE IF x = Zero THEN y
    ELSE IF y = Zero THEN x
    ELSE LET hi == IF x[3] >= y[3] THEN x ELSE y
             lo == IF x[3] >= y[3] THEN y ELSE x
             d == hi[3] - lo[3]
         IN  \* beyond 30 bits apart, lo is less than half a unit of hi
             IF Bits(AbsInt(hi[2])) + d > 30 THEN hi
             ELSE Fl(hi[2] * Pow2(d) + lo[2], lo[3])

Sub(x, y) == Add(x, Neg(y))

Mul(x, y) ==
    IF IsNaN(x) \/ IsNaN(y) THEN NaN
    ELSE IF IsInf(x) \/ IsInf(y)
         THEN (IF x = Zero \/ y = Zero THEN NaN ELSE <<Sign(x) * Sign(y), 0, 0>>)
    ELSE Fl(x[2] * y[2], x[3] + y[3])

\* x / y: 0/0 and Inf/Inf are NaN, nonzero/0 is +-Inf, finite/Inf is 0.
Div(x, y) ==
    IF IsNaN(x) \/ IsNaN(y) THEN NaN
    ELSE IF IsInf(y) THEN (IF IsInf(x) THEN NaN ELSE Zero)
    ELSE IF y = Zero THEN (IF x = Zero THEN NaN ELSE <<Sign(x), 0, 0>>)
    ELSE IF IsInf(x) THEN <<Sign(x) * Sign(y), 0, 0>>
    ELSE IF x = Zero THEN Zero
    ELSE LET s == MantissaBits + 2 + Bits(AbsInt(y[2])) - Bits(AbsInt(x[2]))
         IN  Fl(Sign(x) * Sign(y) * ((AbsInt(x[2]) * Pow2(s)) \div AbsInt(y[2])),
                x[3] - y[3] - s)

\* x > y; False whenever an operand is NaN.
Gt(x, y) == x # y /\ Sign(Sub(x, y)) > 0

\* x <= y; False whenever an operand is NaN.
Le(x, y) == ~IsNaN(x) /\ ~IsNaN(y) /\ ~Gt(x, y)

\* floor(x) of a finite x, as an integer.
FloorInt(x) ==
    IF x[3] >= 0 THEN x[2] * Pow2(x[3])
    ELSE IF -x[3] > 30 THEN (IF x[2] < 0 THEN -1 ELSE 0)
    ELSE x[2] \div Pow2(-x[3])

\* np.exp in base 2: (1 + frac(x)) * 2^floor(x).
Exp(x) ==
    IF IsNaN(x) THEN NaN
    ELSE IF x = PosInf THEN PosInf
    ELSE IF x = NegInf THEN Zero
    ELSE IF x # Zero /\ x[3] + Bits(AbsInt(x[2])) - 1 >= Bits(MinExponent)
         THEN (IF x[2] > 0 THEN PosInf ELSE Zero)
    ELSE LET f == FloorInt(x)
             y == Add(One, Sub(x, Int2Float(f)))
         IN  Fl(y[2], y[3] + f)

\* np.log in base 2: e + f for x = (1 + f) * 2^e; -Inf at 0, NaN below 0.
Log(x) ==
    IF IsNaN(x) \/ x = NegInf THEN NaN
    ELSE IF x = PosInf THEN PosInf
    ELSE IF x = Zero THEN NegInf
    ELSE IF x[2] < 0 THEN NaN
    ELSE LET b == Bits(x[2])
         IN  Add(Int2Float(x[3] + b - 1), Fl(x[2] - Pow2(b - 1), 1 - b))

\* EPS = np.spacing(1): the gap between 1 and the next float.
EPS == Fl(1, 1 - MantissaBits)

\* np.log(x + EPS)
LogEps(x) == Log(Add(x, EPS))

\* The float p / q.
F(p, q) == Div(Int2Float(p), Int2Float(q))

(***************************************************************************)
(* Emission model (Eq 2.2, 2.3 of the paper).                              *)
(***************************************************************************)
STATES == <<0, 1>>
States == {0, 1}

\* scipy.special.factorial(c) as a float64 (Inf once the product overflows).
RECURSIVE RangeProduct(_, _)
RangeProduct(lo, hi) ==
    IF lo > hi THEN One
    ELSE IF lo = hi THEN Int2Float(lo)
    ELSE LET mid == (lo + hi) \div 2
         IN  Mul(RangeProduct(lo, mid), RangeProduct(mid + 1, hi))

Factorial(c) == RangeProduct(1, c)

\* np.power(lam, c) for an integer count c >= 0; power(x, 0) is 1 for every x.
RECURSIVE Pow(_, _)
Pow(lam, c) ==
    IF c = 0 THEN One
    ELSE IF c % 2 = 0 THEN LET h == Pow(lam, c \div 2) IN Mul(h, h)
    ELSE Mul(lam, Pow(lam, c - 1))

\* exp(mu + alphaa * STATES[state_i] + betaa * bin_history_spike_count[0, k])
Lambda(m, a, b, state_i, h) ==
    Exp(Add(Add(m, Mul(a, Int2Float(STATES[state_i + 1]))), Mul(b, Int2Float(h))))

\* exp(-lambda) * lambda ^ count / count!
Poisson(lam, c) == Div(Mul(Exp(Neg(lam)), Pow(lam, c)), Factorial(c))

\* The 2 x nbins emission table for parameters (m, a, b).
EmissionTable(m, a, b, count, hist) ==
    [i \in States |->
        [k \in DOMAIN count |-> Poisson(Lambda(m, a, b, i, hist[k]), count[k])]]

(***************************************************************************)
(* Binning adapter: history counts as run_hmmem derives them.              *)
(***************************************************************************)
RECURSIVE SumRange(_, _, _)
SumRange(f, lo, hi) == IF lo > hi THEN 0 ELSE f[hi] + SumRange(f, lo, hi - 1)

\* The rolling sum without the subtraction of the current bin.
HistoryWithCurrentBin(count, W) ==
    [k \in DOMAIN count |->
        SumRange(count, (IF k - W < 0 THEN 0 ELSE k - W), k)]

\* rolling(W + 1, min_periods=1).sum() - bin_spike_count
History(count, W) ==
    [k \in DOMAIN count |->
        SumRange(count, (IF k - W < 0 THEN 0 ELSE k - W), k) - count[k]]

(***************************************************************************)
(* State of one call of _run_hmmem.  Tables are indexed as in the source:  *)
(* alpha[i][k] is alpha[i, k], zeta[i][j][k] is zeta[i, j, k], bins and    *)
(* EM iterations count from 0.                                             *)
(***************************************************************************)
VARIABLES
    bin_spike_count,          \* argument: counts, one per bin
    bin_history_spike_count,  \* argument: history counts, one per bin
    history_window_nbins,     \* run_hmmem: params['history_window_nbins']
    init_A, init_alphaa, init_betaa, init_mu,              \* arguments
    n_iter_EM, n_iter_newton_ralphson,                     \* arguments
    pc,                       \* position in _run_hmmem
    A, alphaa, betaa, mu,     \* model parameters
    B,                        \* emission table
    p0,                       \* initial-state distribution
    alpha, beta, gamma, zeta, \* forward, backward, marginal, pairwise tables
    C,                        \* scaling vector of the current E-step
    Z,                        \* E[S] per bin
    t,                        \* EM iteration counter
    log_P, diff_log_P,        \* log-likelihood trace and its last difference
    log_P0, logA, logB,       \* log-domain tables of the Viterbi decoder
    delta, psi, S,            \* Viterbi tables and decoded path
    ret,                      \* the returned tuple, once returned
    err,                      \* the exception raised, once raised
    written,                  \* history: the iteration that assigned log_P[i]
    run,                      \* history: 1 for the first call, 2 for a repeat
    nr_trace,                 \* history: newton_ralphson's calls in the first call
    first,                    \* history: outcome of the first call
    bouts_df,                 \* _run_detection: the bouts, one row each
    on_off_orig,              \* _run_detection: detected periods, concatenated time
    on_off_df,                \* _run_detection: the frame being stitched
    bout_concat_start_time,   \* _run_detection: start of the current bout
    bout_i                    \* _run_detection: row of bouts_df.iterrows()

inputs == <<bin_spike_count, bin_history_spike_count, history_window_nbins,
            init_A, init_alphaa,
            init_betaa, init_mu, n_iter_EM, n_iter_newton_ralphson>>
params == <<A, alphaa, betaa, mu, B, p0>>
tables == <<alpha, beta, gamma, zeta, C, Z>>
trace == <<t, log_P, diff_log_P, written>>
viterbi == <<log_P0, logA, logB, delta, psi, S>>
outcome == <<ret, err>>
ghost == <<run, nr_trace, first>>
detection == <<bouts_df, on_off_orig, on_off_df, bout_concat_start_time, bout_i>>
vars == <<inputs, pc, params, tables, trace, viterbi, outcome, ghost, detection>>

nbins == Cardinality(DOMAIN bin_spike_count)
Bins == 0 .. (nbins - 1)

Unset == << >>
NoErr == [type |-> "none", stage |-> "none", t |-> -1, k |-> -1]
Raise(type, stage, tt, k) == [type |-> type, stage |-> stage, t |-> tt, k |-> k]

(***************************************************************************)
(* Inputs enumerated.                                                      *)
(***************************************************************************)
\* Spike counts per bin; 171 is the least count whose factorial overflows.
CountVals == {0, 1, 171}
\* history_window_nbins of the calls of _run_hmmem (the engine sees the window
\* only through the history counts; SpecHistory below varies it).
WindowVals == {2}
InitAVals ==
    { <<<<F(1, 2), F(1, 2)>>, <<F(1, 2), F(1, 2)>>>>,
      <<<<F(1, 1), F(0, 1)>>, <<F(1, 2), F(1, 2)>>>> }
\* init_mu, init_alphaa; the second makes exp(-lambda) underflow in state 1,
\* the third in both states.
InitParamVals ==
    { [mu |-> F(-1, 1), alphaa |-> F(1, 1)],
      [mu |-> F(0, 1), alphaa |-> F(12, 1)],
      [mu |-> F(12, 1), alphaa |-> F(1, 1)] }
\* Roots newton_ralphson may return (mu, alphaa) when its divisions are defined.
NewtonVals ==
    { [mu |-> F(1, 1), alphaa |-> F(1, 1)],
      [mu |-> F(0, 1), alphaa |-> F(1, 1)],
      [mu |-> F(-1, 1), alphaa |-> F(1, 1)] }
\* n_iter_newton_ralphson: no Newton step at all, or the value of the module's
\* own test.
NewtonIterVals == {0, 30}
\* Contents an uninitialised float slot (np.empty) may hold.
UninitVals == {F(0, 1), F(-7, 1)}

\* _run_detection is not running: its frames do not exist.
NoDetection ==
    /\ bouts_df = Unset /\ on_off_orig = Unset /\ on_off_df = Unset
    /\ bout_concat_start_time = 0 /\ bout_i = 0

\* A 0-indexed 2 x 2 matrix from a tuple of rows.
Matrix(m) == [i \in States |-> [j \in States |-> m[i + 1][j + 1]]]

Init ==
    /\ \E n \in 0 .. MaxBins : \E W \in WindowVals :
         \E count \in [0 .. (n - 1) -> CountVals] :
            /\ bin_spike_count = count
            /\ history_window_nbins = W
            /\ bin_history_spike_count = History(count, W)
    /\ \E m \in InitAVals : init_A = Matrix(m)
    /\ \E ip \in InitParamVals :
            /\ init_mu = ip.mu
            /\ init_alphaa = ip.alphaa
            /\ init_betaa = Zero
    /\ n_iter_EM \in 0 .. MaxIterEM
    /\ n_iter_newton_ralphson \in NewtonIterVals
    /\ pc = "param_check"
    /\ A = Unset /\ alphaa = Unset /\ betaa = Unset /\ mu = Unset
    /\ B = Unset /\ p0 = Unset
    /\ alpha = Unset /\ beta = Unset /\ gamma = Unset /\ zeta = Unset
    /\ C = Unset /\ Z = Unset
    /\ t = 0 /\ log_P = Unset /\ diff_log_P = Unset /\ written = Unset
    /\ log_P0 = Unset /\ logA = Unset /\ logB = Unset
    /\ delta = Unset /\ psi = Unset /\ S = Unset
    /\ ret = Unset /\ err = NoErr
    /\ run = 1 /\ nr_trace = << >> /\ first = Unset
    /\ NoDetection

ZeroTable == [i \in States |-> [k \in Bins |-> Zero]]

\* Lines 104-158: parameter checks (all pass for the inputs enumerated: one
\* row of counts, one row of history counts of the same length, a float
\* init_betaa), initial parameters, emission table, zeroed tables and the
\* uninitialised log-likelihood trace.
Setup ==
    /\ pc = "param_check"
    /\ A' = init_A /\ alphaa' = init_alphaa /\ betaa' = init_betaa /\ mu' = init_mu
    /\ B' = EmissionTable(init_mu, init_alphaa, init_betaa,
                          bin_spike_count, bin_history_spike_count)
    /\ p0' = [i \in States |-> F(1, 2)]
    /\ alpha' = ZeroTable /\ beta' = ZeroTable /\ gamma' = ZeroTable
    /\ zeta' = [i \in States |-> ZeroTable]
    /\ t' = 0
    /\ \E g \in UninitVals : log_P' = [i \in 0 .. (n_iter_EM - 1) |-> g]
    /\ written' = [i \in 0 .. (n_iter_EM - 1) |-> -1]
    /\ diff_log_P' = Int2Float(10)
    /\ pc' = "while"
    /\ UNCHANGED <<detection, inputs, C, Z, viterbi, outcome, ghost>>

\* The loop test without the "- 1" of line 159.
LoopConditionFullBudget == t < n_iter_EM /\ Gt(diff_log_P, Zero)

\* Line 159: while t < (n_iter_EM - 1) and diff_log_P > 0
LoopCondition == t < n_iter_EM - 1 /\ Gt(diff_log_P, Zero)

EnterIteration ==
    /\ pc = "while" /\ LoopCondition
    /\ pc' = "forward"
    /\ UNCHANGED <<detection, inputs, params, tables, trace, viterbi, outcome, ghost>>

ExitLoop ==
    /\ pc = "while" /\ ~LoopCondition
    /\ pc' = "viterbi"
    /\ UNCHANGED <<detection, inputs, params, tables, trace, viterbi, outcome, ghost>>

(***************************************************************************)
(* E-step: forward algorithm (lines 163-186).                              *)
(***************************************************************************)
\* alpha[:, k-1] . A (*) B[:, k], before scaling
AlphaStep(prev, k) ==
    [j \in States |->
        Mul(Add(Mul(prev[0], A[0][j]), Mul(prev[1], A[1][j])), B[j][k])]

\* Column k of the forward pass: the unscaled column, its sum C[k] and the
\* scaled column alpha[:, k].
ForwardPass ==
    LET col[k \in Bins] ==
            LET raw == IF k = 0 THEN [i \in States |-> Mul(p0[i], B[i][0])]
                       ELSE AlphaStep(col[k - 1].a, k)
                c == Add(raw[0], raw[1])
            IN  [C |-> c, a |-> [i \in States |-> Div(raw[i], c)]]
    IN  col

\* Bins at which line 178 (C[k] > 0) fails; the loop starts at k = 1.
ForwardBad == {k \in Bins : k >= 1 /\ ~Gt(ForwardPass[k].C, Zero)}

Min(s) == CHOOSE x \in s : \A y \in s : x <= y

RECURSIVE SumFloat(_, _)
SumFloat(f, hi) == IF hi < 0 THEN Zero ELSE Add(SumFloat(f, hi - 1), f[hi])

\* Line 165: alpha[:, 0] = p0 * B[:, 0] on tables with no column.
ForwardIndexError ==
    /\ pc = "forward" /\ nbins = 0
    /\ pc' = "raised"
    /\ err' = Raise("IndexError", "forward", t, 0)
    /\ UNCHANGED <<detection, inputs, params, tables, trace, viterbi, ret, ghost>>

\* Lines 180-184: raise ValueError at the first k >= 1 with C[k] <= 0 or NaN.
ForwardRaise ==
    /\ pc = "forward" /\ nbins > 0 /\ ForwardBad # {}
    /\ pc' = "raised"
    /\ err' = Raise("ValueError", "alpha", t, Min(ForwardBad))
    /\ UNCHANGED <<detection, inputs, params, tables, trace, viterbi, ret, ghost>>

\* Lines 163-186 without a raise: alpha, C and log_P[t].
Forward ==
    /\ pc = "forward" /\ nbins > 0 /\ ForwardBad = {}
    /\ alpha' = [i \in States |-> [k \in Bins |-> ForwardPass[k].a[i]]]
    /\ C' = [k \in Bins |-> ForwardPass[k].C]
    /\ log_P' = [log_P EXCEPT ![t] = SumFloat([k \in Bins |-> LogEps(C'[k])], nbins - 1)]
    /\ written' = [written EXCEPT ![t] = t]
    /\ pc' = "backward"
    /\ UNCHANGED <<detection, inputs, params, beta, gamma, zeta, Z, t, diff_log_P, viterbi,
                   outcome, ghost>>

(***************************************************************************)
(* E-step: backward algorithm (lines 190-201).                             *)
(***************************************************************************)
BackwardPass ==
    LET col[d \in Bins] ==
            \* d counts down from the last bin: k = nbins - 1 - d
            LET k == nbins - 1 - d
            IN  IF d = 0 THEN [i \in States |-> Div(One, C[k])]
                ELSE [i \in States |->
                        Div(Add(Mul(A[i][0], Mul(col[d - 1][0], B[0][k + 1])),
                                Mul(A[i][1], Mul(col[d - 1][1], B[1][k + 1]))),
                            C[k])]
    IN  [i \in States |-> [k \in Bins |-> col[nbins - 1 - k][i]]]

Backward ==
    /\ pc = "backward"
    /\ beta' = BackwardPass
    /\ pc' = "pairwise"
    /\ UNCHANGED <<detection, inputs, params, alpha, gamma, zeta, C, Z, trace, viterbi,
                   outcome, ghost>>

(***************************************************************************)
(* E-step: pairwise and marginal posteriors (lines 203-221).               *)
(***************************************************************************)
\* alpha[:, k] (x) (beta[:, k+1] (*) B[:, k+1]) (*) A, before normalisation
PairwiseTemp(k) ==
    [i \in States |-> [j \in States |->
        Mul(Mul(alpha[i][k], Mul(beta[j][k + 1], B[j][k + 1])), A[i][j])]]

SumAll(m) == Add(Add(m[0][0], m[0][1]), Add(m[1][0], m[1][1]))

\* Bins at which line 214 (np.sum(temp) > 0) fails; the loop ends at nbins - 2.
PairwiseBad == {k \in Bins : k < nbins - 1 /\ ~Gt(SumAll(PairwiseTemp(k)), Zero)}

\* Lines 203-221.  Without a raise: zeta[:, :, k] and gamma[:, k] for
\* k < nbins - 1; column nbins - 1 of both tables is not assigned and keeps
\* its value.  Lines 216-220 raise ValueError at the first k whose sum is
\* not positive (with exact mantissas the sum is positive whenever the
\* forward pass went through, so this branch needs a float out of range).
Pairwise ==
    /\ pc = "pairwise"
    /\ IF PairwiseBad # {}
       THEN /\ pc' = "raised"
            /\ err' = Raise("ValueError", "zeta", t, Min(PairwiseBad))
            /\ UNCHANGED <<zeta, gamma, ret>>
       ELSE /\ zeta' = [i \in States |-> [j \in States |-> [k \in Bins |->
                          IF k < nbins - 1
                          THEN Div(PairwiseTemp(k)[i][j], SumAll(PairwiseTemp(k)))
                          ELSE zeta[i][j][k]]]]
            /\ gamma' = [i \in States |-> [k \in Bins |->
                          IF k < nbins - 1
                          THEN Add(zeta'[i][0][k], zeta'[i][1][k])
                          ELSE gamma[i][k]]]
            /\ pc' = "mstep"
            /\ UNCHANGED outcome
    /\ UNCHANGED <<detection, inputs, params, alpha, beta, C, Z, trace, viterbi, ghost>>

(***************************************************************************)
(* M-step (lines 223-259).                                                 *)
(***************************************************************************)
\* Lines 225-234: Z = E[S], p0 = gamma[:, 0], A = sum_k zeta / sum_k gamma.
MStep ==
    /\ pc = "mstep"
    /\ Z' = [k \in Bins |->
               Add(Mul(Int2Float(STATES[1]), gamma[0][k]),
                   Mul(Int2Float(STATES[2]), gamma[1][k]))]
    /\ p0' = [i \in States |-> gamma[i][0]]
    /\ A' = [i \in States |-> [j \in States |->
               Div(SumFloat(zeta[i][j], nbins - 1), SumFloat(gamma[i], nbins - 1))]]
    /\ pc' = "newton"
    /\ UNCHANGED <<detection, inputs, alphaa, betaa, mu, B, alpha, beta, gamma, zeta, C, trace,
                   viterbi, outcome, ghost>>

\* The shape test with >= in place of >.
NewtonAssertionNotStrict == nbins >= 1

\* Lines 321-322: both arrays must have more columns than rows (one row).
NewtonAssertion == nbins > 1

NewtonRaise ==
    /\ pc = "newton" /\ ~NewtonAssertion
    /\ pc' = "raised"
    /\ err' = Raise("AssertionError", "newton_ralphson", t, -1)
    /\ UNCHANGED <<detection, inputs, params, tables, trace, viterbi, ret, ghost>>

\* newton_ralphson (lines 311-430) runs n_iter Newton steps from fixed
\* starting offsets: it is a function of its arguments.  With n_iter = 0 no
\* loop body runs and it returns the values of lines 327-331, all 0.0.
\* Otherwise its three quotients g / gprime are 0 / 0 = NaN when the weights
\* of the sum are all 0 (Z for alphaa, the history counts for betaa) and NaN
\* when an argument is; failing that, the root it returns is drawn from
\* NewtonVals (betaa = 0).
NewtonArgs == <<Z, alphaa, betaa, mu>>
NewtonKnown == {i \in 1 .. Len(nr_trace) : nr_trace[i].args = NewtonArgs}
NewtonMuNaN ==
    IsNaN(mu) \/ IsNaN(alphaa) \/ IsNaN(betaa) \/ \E k \in Bins : IsNaN(Z[k])
NewtonAlphaaNaN == NewtonMuNaN \/ \A k \in Bins : Z[k] = Zero
NewtonBetaaNaN == NewtonAlphaaNaN \/ \A k \in Bins : bin_history_spike_count[k] = 0
NewtonResult(o) ==
    IF n_iter_newton_ralphson = 0
    THEN [mu |-> Zero, alphaa |-> Zero, betaa |-> Zero]
    ELSE [mu |-> IF NewtonMuNaN THEN NaN ELSE o.mu,
          alphaa |-> IF NewtonAlphaaNaN THEN NaN ELSE o.alphaa,
          betaa |-> IF NewtonBetaaNaN THEN NaN ELSE Zero]

\* Lines 237-245: alphaa, betaa, mu = newton_ralphson(...)
Newton ==
    /\ pc = "newton" /\ NewtonAssertion
    /\ \E o \in NewtonVals :
         LET r == IF NewtonKnown # {} THEN nr_trace[Min(NewtonKnown)].out
                  ELSE NewtonResult(o)
         IN  /\ mu' = r.mu /\ alphaa' = r.alphaa /\ betaa' = r.betaa
             /\ nr_trace' = IF NewtonKnown # {} THEN nr_trace
                            ELSE Append(nr_trace, [args |-> NewtonArgs, out |-> r])
    /\ pc' = "emission"
    /\ UNCHANGED <<detection, inputs, A, B, p0, tables, trace, viterbi, outcome, run, first>>

\* Lines 247-259: update lambda cif and B with the new parameters.
UpdateB ==
    /\ pc = "emission"
    /\ B' = EmissionTable(mu, alphaa, betaa, bin_spike_count, bin_history_spike_count)
    /\ pc' = "increment"
    /\ UNCHANGED <<detection, inputs, A, alphaa, betaa, mu, p0, tables, trace, viterbi,
                   outcome, ghost>>

\* Lines 264-266: if t > 1: diff_log_P = log_P[t] - log_P[t-1]; t += 1
Increment ==
    /\ pc = "increment"
    /\ diff_log_P' = IF t > 1 THEN Sub(log_P[t], log_P[t - 1]) ELSE diff_log_P
    /\ t' = t + 1
    /\ pc' = "while"
    /\ UNCHANGED <<detection, inputs, params, tables, log_P, written, viterbi, outcome, ghost>>

(***************************************************************************)
(* Viterbi decoder (lines 270-308).                                        *)
(***************************************************************************)
\* An argmax that returns the last maximum instead of the first.
ArgMaxLast2(x0, x1) ==
    IF IsNaN(x0) THEN 0
    ELSE IF IsNaN(x1) THEN 1
    ELSE IF Gt(x0, x1) THEN 0 ELSE 1

\* np.argmax over two values: the first maximum; a NaN counts as the maximum.
ArgMax2(x0, x1) ==
    IF IsNaN(x0) THEN 0
    ELSE IF IsNaN(x1) THEN 1
    ELSE IF Gt(x1, x0) THEN 1 ELSE 0

\* np.max over two values: NaN if either is.
Max2(x0, x1) ==
    IF IsNaN(x0) \/ IsNaN(x1) THEN NaN
    ELSE IF Gt(x1, x0) THEN x1 ELSE x0

\* Lines 270-282: prob_S = gamma, p0 = gamma[:, 0:1] (no column when there is
\* no bin) and the three log tables.
ViterbiLogs ==
    /\ pc = "viterbi"
    /\ p0' = [i \in States |-> IF nbins = 0 THEN Unset ELSE gamma[i][0]]
    /\ log_P0' = [i \in States |-> IF nbins = 0 THEN Unset ELSE LogEps(gamma[i][0])]
    /\ logA' = [i \in States |-> [j \in States |-> LogEps(A[i][j])]]
    /\ logB' = [i \in States |-> [k \in Bins |-> LogEps(B[i][k])]]
    /\ pc' = "viterbi_init"
    /\ UNCHANGED <<detection, inputs, A, alphaa, betaa, mu, B, tables, trace, delta, psi, S,
                   outcome, ghost>>

\* Lines 275-285: zeroed tables, delta[:, 0:1] = log_P0 + logB[:, 0:1].
ViterbiInit ==
    /\ pc = "viterbi_init"
    /\ delta' = [i \in States |-> [k \in Bins |->
                   IF k = 0 THEN Add(log_P0[i], logB[i][0]) ELSE Zero]]
    /\ psi' = [i \in States |-> [k \in Bins |-> 0]]
    /\ S' = [k \in Bins |-> 0]
    /\ pc' = "viterbi_loop"
    /\ UNCHANGED <<detection, inputs, params, tables, trace, log_P0, logA, logB, outcome, ghost>>

\* Lines 287-296: column k of psi and delta from column k - 1 of delta.
ViterbiPass ==
    LET col[k \in Bins] ==
            IF k = 0 THEN [d |-> [s \in States |-> delta[s][0]],
                           p |-> [s \in States |-> 0]]
            ELSE LET temp == [s \in States |-> [i \in States |->
                                 Add(col[k - 1].d[i], logA[i][s])]]
                 IN  [d |-> [s \in States |->
                               Add(Max2(temp[s][0], temp[s][1]), logB[s][k])],
                      p |-> [s \in States |-> ArgMax2(temp[s][0], temp[s][1])]]
    IN  col

ViterbiRecursion ==
    /\ pc = "viterbi_loop"
    /\ delta' = [s \in States |-> [k \in Bins |-> ViterbiPass[k].d[s]]]
    /\ psi' = [s \in States |-> [k \in Bins |-> ViterbiPass[k].p[s]]]
    /\ pc' = "backtrack"
    /\ UNCHANGED <<detection, inputs, params, tables, trace, log_P0, logA, logB, S, outcome,
                   ghost>>

\* Lines 299-302: the path read back from psi, last bin first.
BacktrackPath ==
    LET st[d \in Bins] ==
            LET k == nbins - 1 - d
            IN  IF d = 0 THEN ArgMax2(delta[0][k], delta[1][k])
                ELSE psi[st[d - 1]][k + 1]
    IN  [k \in Bins |-> st[nbins - 1 - k]]

\* Line 299: S[0, -1] on a path with no bin.
BacktrackIndexError ==
    /\ pc = "backtrack" /\ nbins = 0
    /\ pc' = "raised"
    /\ err' = Raise("IndexError", "viterbi", t, -1)
    /\ UNCHANGED <<detection, inputs, params, tables, trace, viterbi, ret, ghost>>

Backtrack ==
    /\ pc = "backtrack" /\ nbins > 0
    /\ S' = BacktrackPath
    /\ pc' = "return"
    /\ UNCHANGED <<detection, inputs, params, tables, trace, log_P0, logA, logB, delta, psi,
                   outcome, ghost>>

\* Lines 300-308: log_L, p0 = np.exp(p0) and the returned tuple.
Return ==
    /\ pc = "return"
    /\ p0' = [i \in States |-> Exp(p0[i])]
    /\ ret' = [S |-> S, prob_S |-> gamma, alphaa |-> alphaa, betaa |-> betaa,
               mu |-> mu, A |-> A, B |-> B, p0 |-> p0',
               log_L |-> Div(delta[S[nbins - 1]][nbins - 1], Int2Float(nbins)),
               log_P |-> log_P]
    /\ pc' = "done"
    /\ UNCHANGED <<detection, inputs, A, alphaa, betaa, mu, B, tables, trace, viterbi, err, ghost>>

(***************************************************************************)
(* One call of _run_hmmem.                                                 *)
(***************************************************************************)
EStep ==
    \/ ForwardIndexError \/ ForwardRaise \/ Forward
    \/ Backward
    \/ Pairwise

Maximization == MStep \/ NewtonRaise \/ Newton \/ UpdateB

Decode ==
    \/ ViterbiLogs \/ ViterbiInit \/ ViterbiRecursion
    \/ BacktrackIndexError \/ Backtrack \/ Return

Next ==
    \/ Setup \/ EnterIteration \/ ExitLoop
    \/ EStep \/ Maximization \/ Increment
    \/ Decode

Spec == Init /\ [][Next]_vars

(***************************************************************************)
(* Two calls with the same arguments: after the first call has returned,   *)
(* _run_hmmem is called again with identical inputs.                       *)
(***************************************************************************)
Repeat ==
    /\ pc = "done" /\ run = 1
    /\ run' = 2
    /\ first' = ret
    /\ pc' = "param_check"
    /\ A' = Unset /\ alphaa' = Unset /\ betaa' = Unset /\ mu' = Unset
    /\ B' = Unset /\ p0' = Unset
    /\ alpha' = Unset /\ beta' = Unset /\ gamma' = Unset /\ zeta' = Unset
    /\ C' = Unset /\ Z' = Unset
    /\ t' = 0 /\ log_P' = Unset /\ diff_log_P' = Unset /\ written' = Unset
    /\ log_P0' = Unset /\ logA' = Unset /\ logB' = Unset
    /\ delta' = Unset /\ psi' = Unset /\ S' = Unset
    /\ ret' = Unset /\ err' = NoErr
    /\ UNCHANGED <<detection, inputs, nr_trace>>

NextRepeat == Next \/ Repeat

SpecRepeat == Init /\ [][NextRepeat]_vars

(***************************************************************************)
(* The Viterbi decoder alone, on arbitrary log tables.                     *)
(***************************************************************************)
MaxPathBins == 3
\* Entries of log_P0 and logB, and of logA.
LogVals == {Int2Float(-1), Int2Float(0)}
LogAVals == {Int2Float(-2), Int2Float(0)}

InitViterbi ==
    /\ \E n \in 1 .. MaxPathBins :
         /\ bin_spike_count = [k \in 0 .. (n - 1) |-> 0]
         /\ bin_history_spike_count = [k \in 0 .. (n - 1) |-> 0]
         /\ logB \in [States -> [0 .. (n - 1) -> LogVals]]
    /\ history_window_nbins = 1
    /\ log_P0 \in [States -> LogVals]
    /\ logA \in [States -> [States -> LogAVals]]
    /\ init_A = Unset /\ init_mu = Unset /\ init_alphaa = Unset /\ init_betaa = Unset
    /\ n_iter_EM = 0 /\ n_iter_newton_ralphson = 0
    /\ pc = "viterbi_init"
    /\ A = Unset /\ alphaa = Unset /\ betaa = Unset /\ mu = Unset
    /\ B = Unset /\ p0 = Unset
    /\ alpha = Unset /\ beta = Unset /\ gamma = Unset /\ zeta = Unset
    /\ C = Unset /\ Z = Unset
    /\ t = 0 /\ log_P = Unset /\ diff_log_P = Unset /\ written = Unset
    /\ delta = Unset /\ psi = Unset /\ S = Unset
    /\ ret = Unset /\ err = NoErr
    /\ run = 1 /\ nr_trace = << >> /\ first = Unset
    /\ NoDetection

NextViterbi == ViterbiInit \/ ViterbiRecursion \/ Backtrack

SpecViterbi == InitViterbi /\ [][NextViterbi]_vars

(***************************************************************************)
(* Properties.                                                             *)
(***************************************************************************)
\* Positions after the EM loop has been left without an exception.
Decoding == {"viterbi", "viterbi_init", "viterbi_loop", "backtrack", "return", "done"}
\* Positions inside the body of an EM iteration.
Iterating == {"forward", "backward", "pairwise", "mstep", "newton", "emission",
              "increment"}
LoopExited == pc \in Decoding
\* t iterations have completed and the next statement is the loop test or later.
IterationsCompleted == pc \in Decoding \cup {"while"}

\* The log-likelihood of every completed iteration exceeds the one before.
StrictlyIncreasing == \A i \in 1 .. (t - 1) : Gt(log_P[i], log_P[i - 1])

Max0(i) == IF i < 0 THEN 0 ELSE i

\* C1, as stated: the driver never completes more than n_iter_EM iterations,
\* and a run whose log-likelihood strictly increases at every iteration
\* completes exactly n_iter_EM iterations before the decoder starts.
C1_ExactlyNIterEM ==
    /\ pc # "param_check" => t <= n_iter_EM
    /\ (LoopExited /\ t >= 1 /\ StrictlyIncreasing) => t = n_iter_EM

\* C1, amended: the driver never completes more than n_iter_EM - 1 iterations
\* (none when n_iter_EM <= 1), hence never more than n_iter_EM, and a run
\* whose log-likelihood strictly increases at every iteration completes
\* exactly max(n_iter_EM - 1, 0) iterations before the decoder starts.
C1_IterationBudget ==
    /\ pc # "param_check" => t <= Max0(n_iter_EM - 1) /\ t <= n_iter_EM
    /\ (LoopExited /\ StrictlyIncreasing) => t = Max0(n_iter_EM - 1)

\* A run of three strictly improving iterations that used up a budget of four.
C1_Witness ==
    /\ pc = "done" /\ n_iter_EM = 4 /\ t = 3
    /\ StrictlyIncreasing

\* C2, as stated: once iteration i >= 1 has completed with
\* log_P[i] - log_P[i-1] <= 0 no further iteration is started; and the loop is
\* not left before its budget (n_iter_EM - 1 iterations, see C1) unless the
\* two most recent iterations show such a non-increase.
C2_EarlyStop ==
    /\ (pc \in Iterating /\ t >= 2) => ~Le(Sub(log_P[t - 1], log_P[t - 2]), Zero)
    /\ (LoopExited /\ t < n_iter_EM - 1) =>
            (t >= 2 /\ Le(Sub(log_P[t - 1], log_P[t - 2]), Zero))

\* The forward scaling factors of the E-step that is running or has raised:
\* C is recomputed from p0, A and B, which an E-step does not change.
DegenerateC == {k \in Bins : Le(ForwardPass[k].C, Zero)}

\* C3, as stated: a forward pass that went through met no non-positive C[k],
\* k = 0 included; a forward pass that raised names its iteration and the
\* first bin whose C[k] is non-positive; a pairwise pass that went through
\* met no non-positive sum; and a run that raised returns nothing.
C3_DegeneracySurfaced ==
    /\ pc = "backward" => \A k \in Bins : ~Le(C[k], Zero)
    /\ (pc = "raised" /\ err.stage = "alpha" /\ DegenerateC # {}) =>
            (err.type = "ValueError" /\ err.t = t /\ err.k = Min(DegenerateC))
    /\ pc = "mstep" => PairwiseBad = {}
    /\ pc = "raised" => ret = Unset

\* C4, as stated: with no bin, _run_hmmem never enters an E-step and never
\* reaches the decoder: it has failed before the EM loop.
C4_EmptyInputRejected ==
    nbins = 0 => pc \notin (Iterating \cup Decoding)

\* |x - 1| is within the rounding error of a few operations.
Tolerance == Fl(1, 3 - MantissaBits)
CloseToOne(x) ==
    /\ IsFinite(x)
    /\ Le(Sub(x, One), Tolerance) /\ Le(Sub(One, x), Tolerance)
IsProbability(x) == IsFinite(x) /\ Le(Zero, x) /\ Le(x, Add(One, Tolerance))

\* C5, as stated: after a completed iteration every column of gamma sums to
\* 1, the last one included.
C5_GammaColumnsSumToOne ==
    (IterationsCompleted /\ t >= 1) =>
        \A k \in Bins : CloseToOne(Add(gamma[0][k], gamma[1][k]))

\* C6, as stated: for n >= 2 the matrix A an M-step produces has rows that
\* sum to 1 and entries in [0, 1].
C6_RowStochastic ==
    (pc = "newton" /\ nbins >= 2) =>
        \A i \in States :
            /\ CloseToOne(Add(A[i][0], A[i][1]))
            /\ \A j \in States : IsProbability(A[i][j])

\* C7, as stated: the returned trace has one entry per completed iteration,
\* each written by the E-step of the iteration with its index.
C7_TracePerIteration ==
    pc = "done" =>
        /\ Cardinality(DOMAIN ret.log_P) = t
        /\ \A i \in DOMAIN ret.log_P : written[i] = i

\* C8, as stated: a second call with the same arguments returns the same
\* tuple as the first.
C8_Reproducible ==
    (run = 2 /\ pc = "done") => ret = first

\* C9, as stated: after at least one iteration the returned p0 is the vector
\* the decoder used, gamma[:, 0] of the last E-step, a probability vector.
C9_ReturnedP0 ==
    (pc = "done" /\ t >= 1) =>
        /\ ret.p0 = [i \in States |-> gamma[i][0]]
        /\ \A i \in States : log_P0[i] = LogEps(ret.p0[i])
        /\ \A i \in States : IsProbability(ret.p0[i])
        /\ CloseToOne(Add(ret.p0[0], ret.p0[1]))

\* Total score of a state path P under the decoder's log tables.
RECURSIVE PathScore(_, _)
PathScore(P, k) ==
    IF k = 0 THEN Add(log_P0[P[0]], logB[P[0]][0])
    ELSE Add(Add(PathScore(P, k - 1), logA[P[k - 1]][P[k]]), logB[P[k]][k])
Score(P) == PathScore(P, nbins - 1)
Paths == [Bins -> States]
\* Score of the best path that ends in state s at bin k.
BestInto(s, k) ==
    CHOOSE x \in {PathScore(P, k) : P \in {Q \in Paths : Q[k] = s}} :
        \A P \in Paths : P[k] = s => Le(PathScore(P, k), x)

\* C10: for n >= 1 and any log tables, the decoder's tables obey the reference
\* recursion (delta[:, 0] = log_P0 + logB[:, 0]; delta[s, k] =
\* max_i(delta[i, k-1] + logA[i, s]) + logB[s, k]; psi[s, k] is 1 exactly when
\* predecessor 1 is strictly better, so a tie gives 0), the path is read back
\* from the argmax of the last column with the same tie rule, it has length n
\* and values in {0, 1}, and its total score is maximal over all 2^n paths.
C10_ViterbiReference ==
    pc = "return" =>
        /\ nbins >= 1 /\ DOMAIN S = Bins
        /\ \A k \in Bins : S[k] \in States
        /\ \A s \in States : delta[s][0] = Add(log_P0[s], logB[s][0])
        /\ \A s \in States : \A k \in 1 .. (nbins - 1) :
              LET from0 == Add(delta[0][k - 1], logA[0][s])
                  from1 == Add(delta[1][k - 1], logA[1][s])
              IN  /\ psi[s][k] = (IF Gt(from1, from0) THEN 1 ELSE 0)
                  /\ delta[s][k] =
                        Add(IF Gt(from1, from0) THEN from1 ELSE from0, logB[s][k])
        /\ \A s \in States : \A k \in Bins : delta[s][k] = BestInto(s, k)
        /\ S[nbins - 1] =
              (IF Gt(delta[1][nbins - 1], delta[0][nbins - 1]) THEN 1 ELSE 0)
        /\ \A k \in 0 .. (nbins - 2) : S[k] = psi[S[k + 1]][k + 1]
        /\ \A P \in Paths : Le(Score(P), Score(S))

\* A decoded path over the longest input that changes state, with another
\* path of the same maximal score and a tie in the last column.
C10_Witness ==
    /\ pc = "return" /\ nbins = MaxPathBins
    /\ \E k \in 1 .. (nbins - 1) : S[k] # S[k - 1]
    /\ \E P \in Paths : P # S /\ Score(P) = Score(S)
    /\ delta[0][nbins - 1] = delta[1][nbins - 1]

(***************************************************************************)
(* run_hmmem up to its call of _run_hmmem: the counts are binned, the      *)
(* history counts are derived from them (lines 51-64).                     *)
(***************************************************************************)
MaxHistoryBins == 4
MaxWindow == 3
\* Spike counts per bin of the binned train.
HistoryCountVals == {0, 1, 2}

InitHistory ==
    /\ \E n \in 0 .. MaxHistoryBins :
         bin_spike_count \in [0 .. (n - 1) -> HistoryCountVals]
    /\ history_window_nbins \in 0 .. MaxWindow
    /\ bin_history_spike_count = Unset
    /\ init_A = Unset /\ init_mu = Unset /\ init_alphaa = Unset /\ init_betaa = Unset
    /\ n_iter_EM = 0 /\ n_iter_newton_ralphson = 0
    /\ pc = "binned"
    /\ A = Unset /\ alphaa = Unset /\ betaa = Unset /\ mu = Unset
    /\ B = Unset /\ p0 = Unset
    /\ alpha = Unset /\ beta = Unset /\ gamma = Unset /\ zeta = Unset
    /\ C = Unset /\ Z = Unset
    /\ t = 0 /\ log_P = Unset /\ diff_log_P = Unset /\ written = Unset
    /\ log_P0 = Unset /\ logA = Unset /\ logB = Unset
    /\ delta = Unset /\ psi = Unset /\ S = Unset
    /\ ret = Unset /\ err = NoErr
    /\ run = 1 /\ nr_trace = << >> /\ first = Unset
    /\ NoDetection

\* Lines 56-60: bin_history_spike_count from bin_spike_count.
ComputeHistory ==
    /\ pc = "binned"
    /\ bin_history_spike_count' = History(bin_spike_count, history_window_nbins)
    /\ pc' = "param_check"
    /\ UNCHANGED <<detection, bin_spike_count, history_window_nbins, init_A, init_alphaa,
                   init_betaa, init_mu, n_iter_EM, n_iter_newton_ralphson,
                   params, tables, trace, viterbi, outcome, ghost>>

NextHistory == ComputeHistory

SpecHistory == InitHistory /\ [][NextHistory]_vars

\* C11: history[k] is the sum of the counts of bins max(0, k - W) .. k - 1;
\* all-zero counts give an all-zero history, and a constant count c gives
\* history[k] = W * c for k >= W and k * c for k < W.
C11_HistoryRollingSum ==
    pc = "param_check" =>
        LET W == history_window_nbins
            count == bin_spike_count
            history == bin_history_spike_count
        IN  /\ DOMAIN history = DOMAIN count
            /\ \A k \in DOMAIN count :
                  /\ history[k] >= 0
                  /\ history[k] =
                        SumRange(count, (IF k - W < 0 THEN 0 ELSE k - W), k - 1)
            /\ \A c \in HistoryCountVals :
                  (\A k \in DOMAIN count : count[k] = c) =>
                      \A k \in DOMAIN count :
                          history[k] = (IF k >= W THEN W * c ELSE k * c)

\* A constant non-zero count over the longest input, with bins on both sides
\* of the window length.
C11_Witness ==
    /\ pc = "param_check" /\ nbins = MaxHistoryBins
    /\ history_window_nbins = 2
    /\ \A k \in Bins : bin_spike_count[k] = 2
    /\ bin_history_spike_count[1] = 2 /\ bin_history_spike_count[nbins - 1] = 4

(***************************************************************************)
(* _run_detection after the detection function has returned (on_off.py     *)
(* lines 59-110): the detected periods, in cut-and-concatenated time, are  *)
(* attributed to bouts and moved to recording time.  Times are integers.   *)
(* A row of on_off_df carries the columns the code writes, and orig, the   *)
(* row of on_off_orig it was copied from (history).                        *)
(***************************************************************************)
MaxBouts == 2
MaxPeriods == 2
\* Bout columns: start_time of the first bout, gap to the next one, duration.
BoutStartVals == {0, 10}
BoutGapVals == {0, 1}
BoutDurationVals == {1, 3}
BoutStateVals == {"NREM", "Wake"}

RECURSIVE SumDuration(_, _)
SumDuration(bouts, n) ==
    IF n = 0 THEN 0 ELSE bouts[n].duration + SumDuration(bouts, n - 1)

Bout(s, d, st) == [start_time |-> s, end_time |-> s + d, duration |-> d, state |-> st]

\* Frames of n bouts in recording time: one bout after the other.
RECURSIVE BoutFramesOf(_)
BoutFramesOf(n) ==
    IF n = 1
    THEN { <<Bout(s, d, st)>> :
             s \in BoutStartVals, d \in BoutDurationVals, st \in BoutStateVals }
    ELSE { Append(f, Bout(f[n - 1].end_time + g, d, st)) :
             f \in BoutFramesOf(n - 1), g \in BoutGapVals,
             d \in BoutDurationVals, st \in BoutStateVals }
BoutFrames == UNION { BoutFramesOf(n) : n \in 1 .. MaxBouts }

\* Frames the detection function may return for a train of length Tmax:
\* periods with start_time < end_time within 0 .. Tmax, alternately on and off.
PeriodState(i) == IF i % 2 = 1 THEN "on" ELSE "off"
PeriodFrames(Tmax) ==
    UNION { { [i \in 1 .. n |-> [state |-> PeriodState(i),
                                 start_time |-> se[i][1], end_time |-> se[i][2]]] :
                se \in [1 .. n -> { x \in (0 .. Tmax) \X (0 .. Tmax) : x[1] < x[2] }] }
            : n \in 0 .. MaxPeriods }

InitDetection ==
    /\ bouts_df \in BoutFrames
    /\ on_off_orig \in PeriodFrames(SumDuration(bouts_df, Len(bouts_df)))
    \* Lines 65-66: on_off_orig = on_off_df.copy(); bout_state = "interbout"
    /\ on_off_df = [i \in 1 .. Len(on_off_orig) |->
                      [state |-> on_off_orig[i].state,
                       start_time |-> on_off_orig[i].start_time,
                       end_time |-> on_off_orig[i].end_time,
                       bout_state |-> "interbout",
                       orig |-> i]]
    \* Line 67
    /\ bout_concat_start_time = 0
    /\ bout_i = 1
    /\ pc = "stitch"
    /\ bin_spike_count = Unset /\ bin_history_spike_count = Unset
    /\ history_window_nbins = 0
    /\ init_A = Unset /\ init_mu = Unset /\ init_alphaa = Unset /\ init_betaa = Unset
    /\ n_iter_EM = 0 /\ n_iter_newton_ralphson = 0
    /\ A = Unset /\ alphaa = Unset /\ betaa = Unset /\ mu = Unset
    /\ B = Unset /\ p0 = Unset
    /\ alpha = Unset /\ beta = Unset /\ gamma = Unset /\ zeta = Unset
    /\ C = Unset /\ Z = Unset
    /\ t = 0 /\ log_P = Unset /\ diff_log_P = Unset /\ written = Unset
    /\ log_P0 = Unset /\ logA = Unset /\ logB = Unset
    /\ delta = Unset /\ psi = Unset /\ S = Unset
    /\ ret = Unset /\ err = NoErr
    /\ run = 1 /\ nr_trace = << >> /\ first = Unset

\* Lines 68-95: one row of bouts_df.iterrows().
StitchBout ==
    /\ pc = "stitch" /\ bout_i <= Len(bouts_df)
    /\ LET row == bouts_df[bout_i]
           bout_concat_end_time == bout_concat_start_time + row.duration
           bout_on_off(i) ==
               /\ on_off_orig[i].start_time > bout_concat_start_time
               /\ on_off_orig[i].end_time < bout_concat_end_time
           bout_offset == (-bout_concat_start_time) + row.start_time
       IN  /\ on_off_df' = [i \in 1 .. Len(on_off_df) |->
                 IF bout_on_off(i)
                 THEN [on_off_df[i] EXCEPT
                         !.start_time = @ + bout_offset,
                         !.end_time = @ + bout_offset,
                         !.bout_state = row.state]
                 ELSE on_off_df[i]]
           /\ bout_concat_start_time' = bout_concat_end_time
    /\ bout_i' = bout_i + 1
    /\ UNCHANGED <<inputs, pc, params, tables, trace, viterbi, outcome, ghost,
                   bouts_df, on_off_orig>>

IsKept(r) == r.bout_state # "interbout"

\* Lines 104-106: the rows not marked "interbout", re-indexed.
DropInterbout ==
    /\ pc = "stitch" /\ bout_i > Len(bouts_df)
    /\ on_off_df' = SelectSeq(on_off_df, IsKept)
    /\ pc' = "stitched"
    /\ UNCHANGED <<inputs, params, tables, trace, viterbi, outcome, ghost,
                   bouts_df, on_off_orig, bout_concat_start_time, bout_i>>

NextDetection == StitchBout \/ DropInterbout

SpecDetection == InitDetection /\ [][NextDetection]_vars

\* Bout b in cut-and-concatenated time.
ConcatStart(b) == SumDuration(bouts_df, b - 1)
ConcatEnd(b) == SumDuration(bouts_df, b)
\* The bouts a detected period lies strictly inside of.
BoutsAround(p) ==
    {b \in 1 .. Len(bouts_df) :
        p.start_time > ConcatStart(b) /\ p.end_time < ConcatEnd(b)}
Returned == {on_off_df[i].orig : i \in 1 .. Len(on_off_df)}

\* The parts of C12 about which periods are kept and where they are moved.
StitchedInPlace ==
    pc = "stitched" =>
        /\ \A i \in 1 .. Len(on_off_df) :
              LET r == on_off_df[i]
                  p == on_off_orig[r.orig]
              IN  /\ Cardinality(BoutsAround(p)) = 1
                  /\ \A b \in BoutsAround(p) :
                        LET offset == bouts_df[b].start_time - ConcatStart(b)
                        IN  /\ r.start_time = p.start_time + offset
                            /\ r.end_time = p.end_time + offset
                            /\ r.state = p.state
                            /\ r.bout_state = bouts_df[b].state
        /\ \A j \in 1 .. Len(on_off_orig) :
              Cardinality(BoutsAround(on_off_orig[j])) # 1 => j \notin Returned
        /\ \A i, j \in 1 .. Len(on_off_df) : i < j => on_off_df[i].orig < on_off_df[j].orig

\* C12, as stated: every returned period lay strictly inside exactly one
\* bout, every other detected period is dropped, each kept period is shifted
\* once by its bout's offset, and the bout's state, start_time and end_time
\* are saved in the columns bout_state, bout_start_time and bout_end_time.
C12_BoutStitching ==
    /\ StitchedInPlace
    /\ pc = "stitched" =>
          \A i \in 1 .. Len(on_off_df) :
              LET r == on_off_df[i]
              IN  \A b \in BoutsAround(on_off_orig[r.orig]) :
                    /\ r.bout_state = bouts_df[b].state
                    /\ "bout_start_time" \in DOMAIN r
                    /\ "bout_end_time" \in DOMAIN r
                    /\ r.bout_start_time = bouts_df[b].start_time
                    /\ r.bout_end_time = bouts_df[b].end_time

\* C13: with exactly one bin and n_iter_EM >= 2 the run stays in iteration 0
\* up to the call of newton_ralphson, whose assertion on the shape of the
\* arrays fails; it starts no second iteration, does not reach the decoder,
\* returns nothing, and cannot stop anywhere but in that assertion: the loop
\* test lets iteration 0 in, the forward pass raises nothing, and the
\* assertion of newton_ralphson fails.
C13_SingleBinAborts ==
    (nbins = 1 /\ n_iter_EM >= 2) =>
        /\ t = 0
        /\ pc \in {"param_check", "while", "forward", "backward", "pairwise",
                   "mstep", "newton", "raised"}
        /\ ret = Unset
        /\ pc = "raised" =>
              err = Raise("AssertionError", "newton_ralphson", 0, -1)
        /\ pc = "while" => LoopCondition
        /\ pc = "forward" => ForwardBad = {}
        /\ pc = "newton" => ~NewtonAssertion

\* A single-bin run that went through the E-step and the update of A of
\* iteration 0 and was stopped by newton_ralphson.
C13_Witness ==
    /\ nbins = 1 /\ n_iter_EM >= 2
    /\ pc = "raised" /\ err.stage = "newton_ralphson"
    /\ written[0] = 0 /\ Z # Unset

====
